---- MODULE Spec2Model ----
(***************************************************************************)
(* A model of reynir_correct/checker.py (GreynirCorrect):                  *)
(*   - the class-level parser/reducer singleton and its lock               *)
(*     (GreynirCorrect.parser, GreynirCorrect.reducer),                    *)
(*   - the annotation pipeline GreynirCorrect.annotate,                    *)
(*   - ErrorDetectionToken.verb_is_strictly_impersonal.                    *)
(***************************************************************************)
EXTENDS Integers, Sequences, FiniteSets, TLC

VARIABLES
    \* ---- GreynirCorrect class attributes and the grammar file ----
    _parser,      \* GreynirCorrect._parser: None or a parser instance
    _reducer,     \* GreynirCorrect._reducer: None or a reducer instance
    _lock,        \* GreynirCorrect._lock: None or the thread holding it
    grammar_ts,   \* time stamp of the grammar file on disk
    next_id,      \* number of ErrorDetectingParser() constructions started
    \* ---- per-thread position and locals ----
    pc,           \* position of each thread
    edp,          \* the local edp of the parser property
    found,        \* what the test at lines 228-231 saw
    before,       \* the singleton pair when the thread took the lock
    ret,          \* the value the last completed parser call returned
    calls,        \* number of parser calls a thread has started
    seen,         \* what the last reducer read saw
    raised,       \* the singleton pair left behind by a call that raised
    returned,     \* every parser instance ever returned by the property
    \* ---- annotate ----
    sent,         \* the sentence given to create_sentence
    ann,          \* the local list ann just before line 326
    annotations,  \* the sorted list annotate returns
    apc,          \* position of the annotate run
    \* ---- verb_is_strictly_impersonal ----
    verb, form, strictly, verbs_errors, vresult, vpc

pvars == <<_parser, _reducer, _lock, grammar_ts, next_id, pc, edp, found,
           before, ret, calls, seen, raised, returned>>
avars == <<sent, ann, annotations, apc>>
vvars == <<verb, form, strictly, verbs_errors, vresult, vpc>>
vars == <<pvars, avars, vvars>>

None == [none |-> TRUE]

\* ------------------------------------------------------------------
\* Bounds
NumThreads == 2
MaxCalls == 2
MaxGrammarTs == 1
\* longest sentence whose tokens carry error metadata
MaxTokens == 3
\* longest sentence of unmarked tokens
MaxPlainTokens == 5

Threads == 1..NumThreads

\* ------------------------------------------------------------------
\* The parser/reducer singleton (class GreynirCorrect, lines 195-243)

\* ErrorDetectingParser(): a fresh instance compiled from the grammar file
\* as it is on disk when the constructor runs
ErrorDetectingParser == [id |-> next_id + 1, ts |-> grammar_ts]

\* Reducer(edp.grammar): a reducer bound to the grammar of parser p
Reducer(p) == [grammar |-> p.id]

\* _parser.is_grammar_modified()[0]: the grammar file is newer than the
\* grammar the parser was compiled from
is_grammar_modified(p) == p.ts # grammar_ts

\* the condition without the staleness test
NeedsBuildWhenMissing == _parser = None

\* the condition of the if statement at lines 228-231
NeedsBuild == _parser = None \/ is_grammar_modified(_parser)

Pair == <<_parser, _reducer>>

\* a thread calls the parser property and reaches the with statement
Call(t) ==
    /\ pc[t] = "idle"
    /\ calls[t] < MaxCalls
    /\ calls' = [calls EXCEPT ![t] = @ + 1]
    /\ pc' = [pc EXCEPT ![t] = "acquire"]
    /\ seen' = [seen EXCEPT ![t] = None]
    /\ UNCHANGED <<_parser, _reducer, _lock, grammar_ts, next_id, edp, found,
                   before, ret, raised, returned>>
    /\ UNCHANGED <<avars, vvars>>

\* Acquire without mutual exclusion: the lock is taken even when held
AcquireNoWait(t) ==
    /\ pc[t] = "acquire"
    /\ _lock' = t
    /\ before' = [before EXCEPT ![t] = Pair]
    /\ pc' = [pc EXCEPT ![t] = "test"]
    /\ UNCHANGED <<_parser, _reducer, grammar_ts, next_id, edp, found, ret,
                   calls, seen, raised, returned>>
    /\ UNCHANGED <<avars, vvars>>

\* Acquire with a first check outside the lock: a caller that sees a
\* valid instance goes straight to the return statement
AcquireUnlessValid(t) ==
    /\ pc[t] = "acquire"
    /\ IF NeedsBuild
       THEN /\ _lock = 0
            /\ _lock' = t
            /\ before' = [before EXCEPT ![t] = Pair]
            /\ pc' = [pc EXCEPT ![t] = "test"]
            /\ UNCHANGED found
       ELSE /\ found' = [found EXCEPT ![t] = [inst |-> _parser, stale |-> FALSE]]
            /\ pc' = [pc EXCEPT ![t] = "return"]
            /\ UNCHANGED <<_lock, before>>
    /\ UNCHANGED <<_parser, _reducer, grammar_ts, next_id, edp, ret,
                   calls, seen, raised, returned>>
    /\ UNCHANGED <<avars, vvars>>

\* with self._lock: blocks until the lock is free, then takes it
Acquire(t) ==
    /\ pc[t] = "acquire"
    /\ _lock = 0
    /\ _lock' = t
    /\ before' = [before EXCEPT ![t] = Pair]
    /\ pc' = [pc EXCEPT ![t] = "test"]
    /\ UNCHANGED <<_parser, _reducer, grammar_ts, next_id, edp, found, ret,
                   calls, seen, raised, returned>>
    /\ UNCHANGED <<avars, vvars>>

\* the test at lines 228-231
Test(t) ==
    /\ pc[t] = "test"
    /\ found' = [found EXCEPT ![t] =
                   [inst |-> _parser,
                    stale |-> _parser # None /\ is_grammar_modified(_parser)]]
    /\ pc' = [pc EXCEPT ![t] = IF NeedsBuild THEN "build_parser" ELSE "return"]
    /\ UNCHANGED <<_parser, _reducer, _lock, grammar_ts, next_id, edp, before,
                   ret, calls, seen, raised, returned>>
    /\ UNCHANGED <<avars, vvars>>

\* an exception leaves the with block: the lock is released and the
\* exception propagates out of the property, ending the thread
Propagate(t, p, r) ==
    /\ _lock' = 0
    /\ pc' = [pc EXCEPT ![t] = "raised"]
    /\ raised' = [raised EXCEPT ![t] = [before |-> before[t], after |-> <<p, r>>]]
    /\ before' = [before EXCEPT ![t] = None]
    /\ found' = [found EXCEPT ![t] = None]
    /\ edp' = [edp EXCEPT ![t] = None]

\* line 234: GreynirCorrect._parser = edp = ErrorDetectingParser()
BuildParser(t) ==
    /\ pc[t] = "build_parser"
    /\ next_id' = next_id + 1
    /\ \/ /\ _parser' = ErrorDetectingParser
          /\ edp' = [edp EXCEPT ![t] = ErrorDetectingParser]
          /\ pc' = [pc EXCEPT ![t] = "build_reducer"]
          /\ UNCHANGED <<_lock, raised>>
          /\ UNCHANGED <<found, before>>
       \/ /\ Propagate(t, _parser, _reducer)
          /\ UNCHANGED _parser
    /\ UNCHANGED <<_reducer, grammar_ts, ret, calls, seen, returned>>
    /\ UNCHANGED <<avars, vvars>>

\* line 235: GreynirCorrect._reducer = Reducer(edp.grammar)
BuildReducer(t) ==
    /\ pc[t] = "build_reducer"
    /\ \/ /\ _reducer' = Reducer(edp[t])
          /\ pc' = [pc EXCEPT ![t] = "return"]
          /\ UNCHANGED <<_lock, raised, edp, found, before>>
       \/ /\ Propagate(t, _parser, _reducer)
          /\ UNCHANGED _reducer
    /\ UNCHANGED <<_parser, grammar_ts, next_id, ret, calls, seen, returned>>
    /\ UNCHANGED <<avars, vvars>>

\* line 236: return GreynirCorrect._parser, leaving the with block
Return(t) ==
    /\ pc[t] = "return"
    /\ ret' = [ret EXCEPT ![t] = _parser]
    /\ returned' = returned \cup {_parser}
    /\ _lock' = 0
    /\ pc' = [pc EXCEPT ![t] = "idle"]
    /\ before' = [before EXCEPT ![t] = None]
    /\ found' = [found EXCEPT ![t] = None]
    /\ edp' = [edp EXCEPT ![t] = None]
    /\ UNCHANGED <<_parser, _reducer, grammar_ts, next_id, calls, seen, raised>>
    /\ UNCHANGED <<avars, vvars>>

\* the reducer property (lines 238-243), read by a thread that has
\* retrieved the parser attribute first; no lock is taken
ReadReducer(t) ==
    /\ pc[t] = "idle"
    /\ ret[t] # None
    /\ seen' = [seen EXCEPT ![t] = [reducer |-> _reducer, parser |-> _parser]]
    /\ \/ /\ _reducer # None
          /\ UNCHANGED pc
       \/ /\ _reducer = None
          /\ pc' = [pc EXCEPT ![t] = "assert_failed"]
    /\ UNCHANGED <<_parser, _reducer, _lock, grammar_ts, next_id, edp, found,
                   before, ret, calls, raised, returned>>
    /\ UNCHANGED <<avars, vvars>>

\* the grammar file is modified on disk
GrammarModified ==
    /\ grammar_ts < MaxGrammarTs
    /\ grammar_ts' = grammar_ts + 1
    /\ UNCHANGED <<_parser, _reducer, _lock, next_id, pc, edp, found, before,
                   ret, calls, seen, raised, returned>>
    /\ UNCHANGED <<avars, vvars>>

ParserInit ==
    /\ _parser = None
    /\ _reducer = None
    /\ _lock = 0
    /\ grammar_ts = 0
    /\ next_id = 0
    /\ pc = [t \in Threads |-> "idle"]
    /\ edp = [t \in Threads |-> None]
    /\ found = [t \in Threads |-> None]
    /\ before = [t \in Threads |-> None]
    /\ ret = [t \in Threads |-> None]
    /\ calls = [t \in Threads |-> 0]
    /\ seen = [t \in Threads |-> None]
    /\ raised = [t \in Threads |-> None]
    /\ returned = {}

ParserNext ==
    \/ \E t \in Threads : Call(t)
    \/ \E t \in Threads : Acquire(t)
    \/ \E t \in Threads : Test(t)
    \/ \E t \in Threads : BuildParser(t)
    \/ \E t \in Threads : BuildReducer(t)
    \/ \E t \in Threads : Return(t)
    \/ \E t \in Threads : ReadReducer(t)
    \/ GrammarModified

\* ------------------------------------------------------------------
\* GreynirCorrect.annotate (lines 245-327)

\* A token: kind (TOK.WORD, TOK.PERSON, ...), val (TRUE when the word has
\* at least one meaning), txt, and, for a CorrectToken (correct = TRUE),
\* error_code, error_span and error_description.
\* A sentence: tokens, deep_tree (TRUE when there is a parse tree) and
\* err_index, where NoIndex stands for Python's None.
NoIndex == -1

ICELANDIC_RATIO_NUM == 1
ICELANDIC_RATIO_DEN == 2

Annotation(start, end, code, text, detail) ==
    [start |-> start, end |-> end, code |-> code, text |-> text,
     detail |-> detail]

Max(a, b) == IF a >= b THEN a ELSE b
Min(a, b) == IF a <= b THEN a ELSE b

\* Python's s[a:b] for 0 <= a and 0 <= b
Slice(s, a, b) ==
    IF a >= Min(b, Len(s)) THEN << >> ELSE SubSeq(s, a + 1, Min(b, Len(s)))

\* [f(x) for x in s if x.txt] restricted to the text of the tokens
RECURSIVE NonEmptyTexts(_)
NonEmptyTexts(s) ==
    IF s = << >> THEN << >>
    ELSE IF Head(s).txt # "" THEN <<Head(s).txt>> \o NonEmptyTexts(Tail(s))
    ELSE NonEmptyTexts(Tail(s))

\* "{0:.0f}".format(a / b * 100.0): rounded to the nearest integer,
\* a tie going to the even one
Percent(a, b) ==
    LET q == (100 * a) \div b
        r == (100 * a) % b
    IN  IF 2 * r < b THEN q
        ELSE IF 2 * r > b THEN q + 1
        ELSE IF q % 2 = 0 THEN q ELSE q + 1

\* the token-level annotation of lines 270-277 for the token at index ix
TokenAnnotation(ix, t) ==
    Annotation(ix, ix + t.error_span - 1, t.error_code, t.error_description,
               None)

\* lines 267-269: hasattr(t, "error_code") and t.error_code
HasError(t) == t.correct /\ t.error_code # ""

\* the loop of lines 253-277 over the tokens from (0-based) index ix on,
\* started with the list and the counters collected so far
RECURSIVE TokenScan(_, _, _)
TokenScan(tokens, ix, acc) ==
    IF ix >= Len(tokens) THEN acc
    ELSE LET t == tokens[ix + 1]
             in_bin == \/ t.kind = "WORD" /\ t.val
                       \/ t.kind = "PERSON"
             not_in_bin == t.kind = "WORD" /\ ~t.val
         IN  TokenScan(tokens, ix + 1,
                 [ann |-> IF HasError(t)
                          THEN Append(acc.ann, TokenAnnotation(ix, t))
                          ELSE acc.ann,
                  words_in_bin |-> acc.words_in_bin + (IF in_bin THEN 1 ELSE 0),
                  words_not_in_bin |->
                      acc.words_not_in_bin + (IF not_in_bin THEN 1 ELSE 0)])

Scan(s) ==
    TokenScan(s.tokens, 0,
              [ann |-> << >>, words_in_bin |-> 0, words_not_in_bin |-> 0])

\* the guard with the count compared by >= instead of >
IsForeignFromTwo(words_in_bin, words_not_in_bin) ==
    LET num_words == words_in_bin + words_not_in_bin
    IN  /\ num_words >= 2
        /\ words_in_bin * ICELANDIC_RATIO_DEN < ICELANDIC_RATIO_NUM * num_words

\* line 280: num_words > 2 and words_in_bin / num_words < ICELANDIC_RATIO
IsForeign(words_in_bin, words_not_in_bin) ==
    LET num_words == words_in_bin + words_not_in_bin
    IN  /\ num_words > 2
        /\ words_in_bin * ICELANDIC_RATIO_DEN < ICELANDIC_RATIO_NUM * num_words

\* lines 284-294
E004(s, sc) ==
    Annotation(0, Len(s.tokens) - 1, "E004",
               "Malsgreinin er sennilega ekki a islensku",
               [percent |-> Percent(sc.words_not_in_bin,
                                    sc.words_in_bin + sc.words_not_in_bin)])

\* the quoted text with the window ending one token early
TokTextShort(s) ==
    LET err_index == IF s.err_index = NoIndex THEN 0 ELSE s.err_index
        start == Max(0, err_index - 1)
        end == Min(Len(s.tokens), err_index + 1)
    IN  NonEmptyTexts(Slice(s.tokens, start, end))

\* lines 299-304: the text quoted in the detail of E001
TokText(s) ==
    LET err_index == IF s.err_index = NoIndex THEN 0 ELSE s.err_index
        start == Max(0, err_index - 1)
        end == Min(Len(s.tokens), err_index + 2)
    IN  NonEmptyTexts(Slice(s.tokens, start, end))

\* lines 305-315
E001(s) ==
    LET err_index == IF s.err_index = NoIndex THEN 0 ELSE s.err_index
    IN  Annotation(0, Len(s.tokens) - 1, "E001",
                   "Malsgreinin fellur ekki ad reglum",
                   [index |-> err_index + 1, toktext |-> TokText(s)])

\* ErrorFinder(ann, sent).go(): what the collector of error-marked
\* nonterminals may append to the list
ErrorFinderGo(s) ==
    LET n == Len(s.tokens)
    IN  { << >>,
          <<Annotation(0, n - 1, "E002", "nonterminal", None)>>,
          <<Annotation(n - 1, n - 1, "E003", "impersonal", None),
            Annotation(0, n - 1, "E002", "nonterminal", None)>> }

\* PatternMatcher(ann, sent).go(): what the pattern matcher may append
PatternMatcherGo(s) ==
    { << >>, <<Annotation(0, 0, "P_WRONG_CASE", "pattern", None)>> }

\* the sort key without the minus sign: (a.start, a.end)
KeyLEAscendingEnd(a, b) ==
    \/ a.start < b.start
    \/ a.start = b.start /\ a.end <= b.end

\* line 326: the sort key (a.start, -a.end), compared as Python compares
\* tuples
KeyLE(a, b) ==
    \/ a.start < b.start
    \/ a.start = b.start /\ (0 - a.end) <= (0 - b.end)

\* a is put after every element whose key is not greater (a stable sort)
RECURSIVE InsertSorted(_, _)
InsertSorted(a, sorted) ==
    IF sorted = << >> THEN <<a>>
    ELSE IF KeyLE(Head(sorted), a)
         THEN <<Head(sorted)>> \o InsertSorted(a, Tail(sorted))
         ELSE <<a>> \o sorted

\* ann.sort(key=lambda a: (a.start, -a.end))
RECURSIVE Sort(_)
Sort(l) ==
    IF l = << >> THEN << >>
    ELSE InsertSorted(l[Len(l)], Sort(SubSeq(l, 1, Len(l) - 1)))

\* lines 284-294: the token-level annotations are discarded
ForeignList(s, sc) == <<E004(s, sc)>>

\* the parse-failure branch replacing the list instead of appending
ParseFailListAlone(s, sc) == <<E001(s)>>

\* lines 299-315: the token-level annotations are kept
ParseFailList(s, sc) == Append(sc.ann, E001(s))

\* lines 320-323
ParsedList(s, sc, f, p) == (sc.ann \o f) \o p

\* create_sentence (lines 329-335) annotating the sentence: annotate runs
\* from the token scan to the sort and the list is attached. One action
\* for each branch of the if statement at lines 280-323.
Attach(l) ==
    /\ apc = "start"
    /\ apc' = "done"
    /\ ann' = l
    /\ annotations' = Sort(l)
    /\ UNCHANGED <<sent, pvars, vvars>>

AnnotateForeign ==
    LET sc == Scan(sent)
    IN  /\ IsForeign(sc.words_in_bin, sc.words_not_in_bin)
        /\ Attach(ForeignList(sent, sc))

AnnotateParseFail ==
    LET sc == Scan(sent)
    IN  /\ ~IsForeign(sc.words_in_bin, sc.words_not_in_bin)
        /\ ~sent.deep_tree
        /\ Attach(ParseFailList(sent, sc))

AnnotateParsed ==
    LET sc == Scan(sent)
    IN  /\ ~IsForeign(sc.words_in_bin, sc.words_not_in_bin)
        /\ sent.deep_tree
        /\ \E f \in ErrorFinderGo(sent), p \in PatternMatcherGo(sent) :
              Attach(ParsedList(sent, sc, f, p))

\* ---- the sentences annotate is run on ----
\* the text of the token at each position
PositionText == <<"t0", "t1", "t2", "t3", "t4", "t5", "t6", "t7">>

\* a plain Tok: no error_code attribute
Tok(kind, val, txt) ==
    [kind |-> kind, val |-> val, txt |-> txt, correct |-> FALSE,
     error_code |-> "", error_span |-> 0, error_description |-> ""]

\* a CorrectToken: error_code is empty when the token is not in error
CorrectToken(kind, val, txt, code, span) ==
    [kind |-> kind, val |-> val, txt |-> txt, correct |-> TRUE,
     error_code |-> code, error_span |-> span,
     error_description |-> IF code = "" THEN "" ELSE "spelling"]

Kinds == { <<"WORD", TRUE>>, <<"WORD", FALSE>>, <<"PERSON", TRUE>>,
           <<"PUNCTUATION", FALSE>> }

\* a token of kind k at position i (1-based): a Tok when span is 0,
\* otherwise a CorrectToken in error over span tokens
MarkedToken(k, span, i) ==
    IF span = 0 THEN Tok(k[1], k[2], PositionText[i])
    ELSE CorrectToken(k[1], k[2], PositionText[i], "S004", span)

\* a recognised word that is not in error, with or without text
PlainToken(hastext, i) ==
    CorrectToken("WORD", TRUE, IF hastext THEN PositionText[i] ELSE "", "", 1)

\* a sentence either has a parse tree or an error index in its tokens
Outcomes(n) ==
    { [deep_tree |-> TRUE, err_index |-> NoIndex] }
    \cup { [deep_tree |-> FALSE, err_index |-> e] :
           e \in {NoIndex} \cup (0..(n - 1)) }

Sentence(tokens, o) ==
    [tokens |-> tokens, deep_tree |-> o.deep_tree, err_index |-> o.err_index]

MarkedSentence ==
    \E n \in 1..MaxTokens :
        \E ks \in [1..n -> Kinds], sp \in [1..n -> 0..2], o \in Outcomes(n) :
            sent = Sentence([i \in 1..n |-> MarkedToken(ks[i], sp[i], i)], o)

PlainSentence ==
    \E n \in 1..MaxPlainTokens :
        \E ht \in [1..n -> BOOLEAN], o \in Outcomes(n) :
            sent = Sentence([i \in 1..n |-> PlainToken(ht[i], i)], o)

AnnotateInit ==
    /\ MarkedSentence \/ PlainSentence
    /\ ann = << >>
    /\ annotations = << >>
    /\ apc = "start"


AnnotateIdle ==
    /\ sent = [tokens |-> << >>, deep_tree |-> TRUE, err_index |-> NoIndex]
    /\ ann = << >>
    /\ annotations = << >>
    /\ apc = "idle"

\* ------------------------------------------------------------------
\* ErrorDetectionToken.verb_is_strictly_impersonal (lines 106-121)

\* "OP" in form, the form being a sequence of BIN feature tags
Contains(f, tag) == \E i \in 1..Len(f) : f[i] = tag

\* VerbSubjects.is_strictly_impersonal(verb)
is_strictly_impersonal(v) == v \in strictly

verb_is_strictly_impersonal(v, f) ==
    IF Contains(f, "OP") /\ ~is_strictly_impersonal(v) THEN TRUE ELSE FALSE

VerbCheck ==
    /\ vpc = "start"
    /\ vresult' = verb_is_strictly_impersonal(verb, form)
    /\ vpc' = "done"
    /\ UNCHANGED <<verb, form, strictly, verbs_errors, pvars, avars>>

Verbs == {"daga", "hlakka", "langa"}

Forms == { <<"GM", "FH", "NT", "3P", "ET">>,
           <<"OP", "THF", "GM", "FH", "NT", "3P", "ET">>,
           <<"GM", "NH">>,
           <<"OP", "THGF", "GM", "FH", "THT", "1P", "FT">> }

VerbInit ==
    /\ verb \in Verbs
    /\ form \in Forms
    /\ strictly \in SUBSET Verbs
    /\ verbs_errors \in SUBSET Verbs
    /\ vresult = FALSE
    /\ vpc = "start"

VerbIdle ==
    /\ verb = "daga"
    /\ form = << >>
    /\ strictly = {}
    /\ verbs_errors = {}
    /\ vresult = FALSE
    /\ vpc = "idle"

\* ------------------------------------------------------------------
\* Properties of the parser/reducer singleton (checked under Spec)

Building == { t \in Threads : pc[t] \in {"build_parser", "build_reducer"} }

NoRaise == \A t \in Threads : pc[t] # "raised"

C6_ValidReturnsUnlocked ==
    \A t \in Threads :
        (pc[t] = "return" /\ found[t].inst # None /\ ~found[t].stale)
            => _lock # t

\* C6 amended: every caller acquires the lock before it tests the
\* singleton and holds it until it returns; the instance is tested only
\* under the lock; a caller that finds a valid instance constructs nothing.
C6_LockThenCheck ==
    \A t \in Threads :
        /\ pc[t] \in {"test", "build_parser", "build_reducer", "return"}
              => _lock = t
        /\ found[t] # None => _lock = t
        /\ (pc[t] = "return" /\ found[t].inst # None /\ ~found[t].stale)
              => edp[t] = None /\ _parser = found[t].inst

\* C6 witness: a caller waits for the lock although the instance is valid,
\* while the holder has found that instance valid
C6_Witness ==
    \E t, u \in Threads :
        /\ t # u
        /\ pc[t] = "acquire"
        /\ _lock = u
        /\ pc[u] = "return"
        /\ found[u].inst # None /\ ~found[u].stale
        /\ _parser # None /\ ~is_grammar_modified(_parser)

\* C7: whenever a thread that has obtained a parser reads the reducer, the
\* reducer it reads is the one constructed from the grammar of the parser
\* installed at that moment (stated for runs in which no construction
\* raises).
C7_ReducerMatchesParser ==
    NoRaise =>
        \A t \in Threads :
            seen[t] # None =>
                /\ seen[t].reducer # None
                /\ seen[t].reducer = Reducer(seen[t].parser)

\* C9: a call that finds an existing instance reported as modified has,
\* when it returns, constructed a new parser and a new reducer and
\* installed both; a call that finds an existing instance not reported as
\* modified constructs nothing and returns that instance; so an instance
\* that is returned as found was not reported stale when it was tested.
C9_RebuildOrReuse ==
    \A t \in Threads :
        pc[t] = "return" =>
            /\ (found[t].inst # None /\ found[t].stale) =>
                  /\ edp[t] # None
                  /\ edp[t] # found[t].inst
                  /\ _parser = edp[t]
                  /\ _reducer = Reducer(edp[t])
            /\ (found[t].inst # None /\ ~found[t].stale) =>
                  /\ edp[t] = None
                  /\ _parser = found[t].inst
            /\ _parser = found[t].inst => ~found[t].stale

\* C9 witness: a call that found a stale instance is about to return
C9_Witness ==
    \E t \in Threads :
        /\ pc[t] = "return"
        /\ found[t].inst # None
        /\ found[t].stale
        /\ \E u \in Threads : ret[u] = found[t].inst

\* C10: a call in which construction raises leaves the singleton pair as
\* it was before the call.
C10_FailureLeavesPair ==
    \A t \in Threads :
        raised[t] # None => raised[t].after = raised[t].before

\* ------------------------------------------------------------------
\* Properties of annotate (checked under SpecAnnotate)

Range(l) == { l[i] : i \in 1..Len(l) }

Count(l, x) == Cardinality({ i \in 1..Len(l) : l[i] = x })

CountCode(l, c) == Cardinality({ i \in 1..Len(l) : l[i].code = c })

TokenCount == Len(sent.tokens)

\* the number of word tokens with a lexicon match plus person names
Recognized ==
    Cardinality({ i \in 1..TokenCount :
                    \/ sent.tokens[i].kind = "WORD" /\ sent.tokens[i].val
                    \/ sent.tokens[i].kind = "PERSON" })

\* the number of word tokens without a lexicon match
Unrecognized ==
    Cardinality({ i \in 1..TokenCount :
                    sent.tokens[i].kind = "WORD" /\ ~sent.tokens[i].val })

\* total > 2 and recognized / total below the minimum ratio
GuardFires ==
    /\ Recognized + Unrecognized > 2
    /\ Recognized * ICELANDIC_RATIO_DEN
          < ICELANDIC_RATIO_NUM * (Recognized + Unrecognized)

\* the annotations of the tokens that carry an error code, in token order
TokenLevel ==
    { Annotation(i - 1, i - 1 + sent.tokens[i].error_span - 1,
                 sent.tokens[i].error_code, sent.tokens[i].error_description,
                 None) :
      i \in { j \in 1..TokenCount :
                sent.tokens[j].correct /\ sent.tokens[j].error_code # "" } }

\* C2: the guard decides the path; on the E004 path the result holds E004
\* and no token-level annotation; on the E001 path (guard silent, no tree)
\* it holds E001 and every token-level annotation; on the success path
\* (guard silent, tree) it holds every token-level annotation and neither
\* E001 nor E004; E001 and E004 never appear together.
C2_OnePath ==
    apc = "done" =>
        /\ CountCode(annotations, "E001") + CountCode(annotations, "E004") <= 1
        /\ GuardFires =>
              /\ CountCode(annotations, "E004") = 1
              /\ Range(annotations) \cap TokenLevel = {}
        /\ (~GuardFires /\ ~sent.deep_tree) =>
              /\ CountCode(annotations, "E001") = 1
              /\ \A x \in TokenLevel : Count(annotations, x) >= 1
        /\ (~GuardFires /\ sent.deep_tree) =>
              /\ CountCode(annotations, "E001") = 0
              /\ CountCode(annotations, "E004") = 0
              /\ \A x \in TokenLevel : Count(annotations, x) >= 1

\* C2 witness: the parse failed and token-level annotations were kept
C2_Witness ==
    /\ apc = "done"
    /\ ~sent.deep_tree
    /\ CountCode(annotations, "E001") = 1
    /\ Cardinality(TokenLevel) >= 2
    /\ TokenLevel \subseteq Range(annotations)

\* C3: the result is exactly one annotation, with code E004, start 0 and
\* end tokenCount - 1, if and only if total > 2 and recognized / total is
\* below the minimum ratio.
C3_ForeignGuard ==
    apc = "done" =>
        ( ( /\ Len(annotations) = 1
            /\ annotations[1].code = "E004"
            /\ annotations[1].start = 0
            /\ annotations[1].end = TokenCount - 1 )
          <=> GuardFires )

\* C3 witness: three word tokens, two of them unrecognized, all carrying
\* error metadata, and only E004 is returned
C3_Witness ==
    /\ apc = "done"
    /\ TokenCount = 3
    /\ Recognized = 1
    /\ Unrecognized = 2
    /\ Cardinality(TokenLevel) = 3
    /\ Len(annotations) = 1
    /\ annotations[1].code = "E004"
    /\ annotations[1].detail.percent = 67

\* C4: the returned list ascends by start, equal starts descend by end,
\* and it is a permutation of the list collected before the sort.
C4_Sorted ==
    apc = "done" =>
        /\ \A i, j \in 1..Len(annotations) :
              i < j =>
                 \/ annotations[i].start < annotations[j].start
                 \/ /\ annotations[i].start = annotations[j].start
                    /\ annotations[i].end >= annotations[j].end
        /\ Len(annotations) = Len(ann)
        /\ \A x \in Range(ann) \cup Range(annotations) :
              Count(annotations, x) = Count(ann, x)

\* C4 witness: on the success path the sort moved a wider annotation in
\* front of a narrower one that starts at the same token
C4_Witness ==
    /\ apc = "done"
    /\ sent.deep_tree
    /\ annotations # ann
    /\ \E i \in 1..(Len(annotations) - 1) :
          /\ annotations[i].start = annotations[i + 1].start
          /\ annotations[i].end > annotations[i + 1].end
          /\ annotations[i].code = "E002"

\* the window of the claim: [max(0, e - 1), min(tokenCount, e + 2))
WindowLo == Max(0, (IF sent.err_index = NoIndex THEN 0 ELSE sent.err_index) - 1)

WindowHi ==
    Min(TokenCount, (IF sent.err_index = NoIndex THEN 0 ELSE sent.err_index) + 2)

\* the texts of the tokens with indices in the window, empty ones left out
WindowTexts ==
    LET w == SelectSeq(SubSeq(sent.tokens, WindowLo + 1, WindowHi),
                       LAMBDA t : t.txt # "")
    IN  [i \in 1..Len(w) |-> w[i].txt]

\* C8: on the parse-failure path the result holds exactly one E001
\* annotation, spanning [0, tokenCount - 1], whose detail quotes the text
\* of the tokens in [max(0, e - 1), min(tokenCount, e + 2)), an absent
\* error index counting as 0; the window is non-empty and inside
\* [0, tokenCount).
C8_FailureWindow ==
    (apc = "done" /\ ~GuardFires /\ ~sent.deep_tree) =>
        /\ CountCode(annotations, "E001") = 1
        /\ \A i \in 1..Len(annotations) :
              annotations[i].code = "E001" =>
                 /\ annotations[i].start = 0
                 /\ annotations[i].end = TokenCount - 1
                 /\ annotations[i].detail.toktext = WindowTexts
        /\ 0 <= WindowLo
        /\ WindowLo < WindowHi
        /\ WindowHi <= TokenCount

\* C8 witness: a 5-token sentence that failed at token 0 quotes tokens
\* 0 and 1
C8_Witness ==
    /\ apc = "done"
    /\ ~sent.deep_tree
    /\ TokenCount = 5
    /\ sent.err_index = 0
    /\ \E i \in 1..Len(annotations) :
          /\ annotations[i].code = "E001"
          /\ annotations[i].detail.toktext = <<"t0", "t1">>
          /\ annotations[i].detail.index = 1

\* ------------------------------------------------------------------
\* Property of verb_is_strictly_impersonal (checked under SpecVerb)

Init == ParserInit /\ AnnotateIdle /\ VerbIdle
Next == ParserNext
Spec == Init /\ [][Next]_vars

\* annotate run on one sentence
InitAnnotate == ParserInit /\ AnnotateInit /\ VerbIdle
NextAnnotate == AnnotateForeign \/ AnnotateParseFail \/ AnnotateParsed
SpecAnnotate == InitAnnotate /\ [][NextAnnotate]_vars

\* verb_is_strictly_impersonal applied to one verb and form
InitVerb == ParserInit /\ AnnotateIdle /\ VerbInit
NextVerb == VerbCheck
SpecVerb == InitVerb /\ [][NextVerb]_vars

====
